---- MODULE Spec2Model ----
(***************************************************************************)
(* A model of provworkflow: ProvReporter (construction, prov_to_graph,     *)
(* the persistence dispatcher persist and its backends) and Workflow       *)
(* (a ProvReporter owning an ordered list of blocks).                      *)
(*                                                                         *)
(* Python strings that the code inspects character by character            *)
(* (startswith, replace, concatenation, comparison with "null") are        *)
(* sequences of one-character strings.  A Python value is a record         *)
(* [t |-> its type, s |-> its characters]; None is the value of type       *)
(* "None".                                                                 *)
(***************************************************************************)
EXTENDS Integers, Sequences, FiniteSets, Bags, TLC

VARIABLES
    now,        \* the wall clock read by datetime.now()
    made,       \* how many uuid-based URIs have been generated
    rec,        \* the object the caller holds (a ProvReporter or a Workflow)
    g,          \* the rdflib Graph the caller holds
    base,       \* g's statements when rec was first built on it
    emitted,    \* how many times rec.prov_to_graph(g) has returned
    fs,         \* destinations of the files on disk
    rdflibStr,  \* TRUE: Graph.serialize() returns str, FALSE: bytes
    last        \* the last call made and what came of it

vars == <<now, made, rec, g, base, emitted, fs, rdflibStr, last>>

(***************************************************************************)
(* Bounds of the model.                                                    *)
(***************************************************************************)
MaxClock == 1
MaxIds == 1
MaxBlocks == 2
MaxBuilds == 2
MaxMethods == 3

(***************************************************************************)
(* Python values.                                                          *)
(***************************************************************************)
None == [t |-> "None", s |-> <<>>]
Str(s) == [t |-> "str", s |-> s]
URIRef(s) == [t |-> "URIRef", s |-> s]
Literal(s, datatype) == [t |-> "Literal^^" \o datatype, s |-> s]

Digit(n) == <<"0", "1", "2", "3", "4", "5", "6", "7", "8", "9">>[n + 1]

http == <<"h", "t", "t", "p">>
null == <<"n", "u", "l", "l">>
ttl == <<".", "t", "t", "l">>
trig == <<".", "t", "r", "i", "g">>

\* str.startswith
StartsWith(s, prefix) ==
    /\ Len(s) >= Len(prefix)
    /\ SubSeq(s, 1, Len(prefix)) = prefix

\* str.replace(old, ""): every non-overlapping occurrence, left to right
RECURSIVE Remove(_, _)
Remove(s, old) ==
    IF Len(s) < Len(old) THEN s
    ELSE IF SubSeq(s, 1, Len(old)) = old
         THEN Remove(SubSeq(s, Len(old) + 1, Len(s)), old)
         ELSE <<Head(s)>> \o Remove(Tail(s), old)

\* URIRef(x) if type(x) == str else x
AsURIRef(x) == IF x.t = "str" THEN URIRef(x.s) ELSE x

\* Literal(x) if type(x) == str else x
AsLiteral(x) == IF x.t = "str" THEN Literal(x.s, "") ELSE x

\* x != "null" for a Python value x: a str compares by its characters; None and
\* an rdflib term (whose __eq__ is False for an operand of another type) differ
NotEqualStr(x, s) == ~(x.t = "str" /\ x.s = s)

Range(f) == {f[i] : i \in DOMAIN f}

(***************************************************************************)
(* ProvReporter.__init__                                                   *)
(***************************************************************************)
known_classes == {"Entity", "Activity", "Agent", "Workflow", "Block"}

NoRec == [cls |-> "", uri |-> None, label |-> None, named_graph_uri |-> None,
          class_uri |-> None, created |-> None, blocks |-> <<>>]

\* the class-specialisation checks; "" when none raises
ClassUriCheck(cls, class_uri) ==
    IF class_uri # None
    THEN LET c == AsURIRef(class_uri) IN
         IF cls \in known_classes /\ c # None THEN "ProvWorkflowException"
         ELSE IF cls \notin known_classes /\ c = None THEN "ProvWorkflowException"
         ELSE IF c # None /\ ~StartsWith(c.s, http) THEN "ProvWorkflowException"
         ELSE ""
    ELSE ""

\* the object __init__ leaves behind when it does not raise
ProvReporter__init__(cls, uri, label, named_graph_uri, class_uri) ==
    [cls |-> cls,
     uri |-> IF uri # None THEN AsURIRef(uri)
             ELSE URIRef(<<"p", "w", "f", "s", ":", Digit(made)>>),
     label |-> AsLiteral(label),
     named_graph_uri |-> AsURIRef(named_graph_uri),
     class_uri |-> AsURIRef(class_uri),
     created |-> Literal(<<Digit(now)>>, "dateTimeStamp"),
     blocks |-> <<>>]

(***************************************************************************)
(* rdflib.Graph as the code uses it: a store of (subject, predicate,       *)
(* object) statements with an identifier and prefix bindings.  triples     *)
(* counts the copies of each statement the store holds.                    *)
(***************************************************************************)
RDF_type == "rdf:type"
DCTERMS_created == "dcterms:created"
RDFS_label == "rdfs:label"
PROVWF_hadBlock == "provwf:hadBlock"
PROVWF_ProvReporter == URIRef(<<"provwf:ProvReporter">>)
PROVWF_Workflow == URIRef(<<"provwf:Workflow">>)

\* Graph(identifier=...): an empty graph; identifier None is rdflib's default
Graph(identifier) ==
    [nil |-> FALSE, identifier |-> identifier, triples |-> EmptyBag, binds |-> {}]

\* the argument g=None
NoGraph ==
    [nil |-> TRUE, identifier |-> None, triples |-> EmptyBag, binds |-> {}]

\* g.add(t): the store holds each statement once, so adding one it holds
\* leaves it as it is
GraphAdd(gr, t) ==
    [gr EXCEPT !.triples = IF BagIn(t, @) THEN @ ELSE @ (+) SetToBag({t})]

\* g.bind(prefix, namespace)
GraphBind(gr, prefix) == [gr EXCEPT !.binds = @ \cup {prefix}]

RECURSIVE AddAll(_, _)
AddAll(gr, ts) ==
    IF ts = <<>> THEN gr ELSE AddAll(GraphAdd(gr, Head(ts)), Tail(ts))

\* the statements of self, had dcterms:created been read from the clock when the
\* graph is built
OwnTriples_createdAtBuild(self) ==
    <<  <<self.uri, RDF_type, PROVWF_ProvReporter>>,
        <<self.uri, DCTERMS_created, Literal(<<Digit(now)>>, "dateTimeStamp")>>  >>
    \o (IF self.label # None
        THEN << <<self.uri, RDFS_label, Literal(self.label.s, "string")>> >>
        ELSE <<>>)

\* the statements ProvReporter.prov_to_graph adds for self, in the order added
OwnTriples(self) ==
    <<  <<self.uri, RDF_type, PROVWF_ProvReporter>>,
        <<self.uri, DCTERMS_created, self.created>>  >>
    \o (IF self.label # None
        THEN << <<self.uri, RDFS_label, Literal(self.label.s, "string")>> >>
        ELSE <<>>)

\* ProvReporter.prov_to_graph(self, g): the graph returned, which is the
\* object passed in when one is passed
ProvReporter_prov_to_graph(self, gr) ==
    LET g0 == IF gr.nil
              THEN IF self.named_graph_uri # None
                   THEN Graph(URIRef(self.named_graph_uri.s))
                   ELSE Graph(None)
              ELSE gr
        g1 == GraphBind(GraphBind(GraphBind(GraphBind(GraphBind(g0,
                  "prov"), "provwf"), "pwfs"), "owl"), "dcterms")
    IN  AddAll(g1, OwnTriples(self))

(***************************************************************************)
(* Workflow                                                                *)
(***************************************************************************)
\* the names an attribute lookup on self finds: those __init__ assigns
\* (version_uri when a version is resolved) and those the classes ProvReporter
\* and Workflow define.  PROVWF is a name of the module prov_reporter, not an
\* attribute of either class.
Attributes(self) ==
    {"uri", "label", "named_graph_uri", "created", "version_uri",
     "prov_to_graph", "persist", "_persist_to_file", "_persist_to_graphdb",
     "_persist_to_sop"}
    \cup (IF self.class_uri # None THEN {"class_uri"} ELSE {})
    \cup (IF self.cls = "Workflow" THEN {"blocks", "prov_to_allegrograph"} ELSE {})

\* Workflow.__init__(uri, label, blocks): the object it leaves behind
Workflow__init__(uri, label, blocks) ==
    [ProvReporter__init__("Workflow", uri, label, None, None) EXCEPT !.blocks = blocks]

\* the loop over self.blocks: each block's own graph (the prov_to_graph a block
\* inherits from ProvReporter), then its hadBlock statement
RECURSIVE AddBlocks(_, _, _)
AddBlocks(self, gr, blocks) ==
    IF blocks = <<>> THEN gr
    ELSE AddBlocks(self,
                   GraphAdd(ProvReporter_prov_to_graph(Head(blocks), gr),
                            <<self.uri, PROVWF_hadBlock, Head(blocks).uri>>),
                   Tail(blocks))

\* Workflow.prov_to_graph, had the check for blocks come after the inherited
\* statements are added
Workflow_prov_to_graph_checkLate(self, gr) ==
    LET g1 == ProvReporter_prov_to_graph(self, gr) IN
    IF Len(self.blocks) < 1
    THEN [exc |-> "ProvWorkflowException", g |-> g1]
    ELSE [exc |-> "AttributeError", g |-> g1]

\* Workflow.prov_to_graph(self, g): the exception raised ("" for none) and the
\* graph object as the call leaves it.  self.PROVWF is an attribute lookup.
Workflow_prov_to_graph(self, gr) ==
    IF Len(self.blocks) < 1
    THEN [exc |-> "ProvWorkflowException", g |-> gr]
    ELSE LET g1 == ProvReporter_prov_to_graph(self, gr) IN
         IF "PROVWF" \notin Attributes(self)
         THEN [exc |-> "AttributeError", g |-> g1]
         ELSE [exc |-> "",
               g |-> AddBlocks(self,
                               GraphAdd(g1, <<self.uri, RDF_type, PROVWF_Workflow>>),
                               self.blocks)]

\* self.prov_to_graph(g), by the class of self
BuildGraph(self, gr) ==
    IF self.cls = "Workflow"
    THEN Workflow_prov_to_graph(self, gr)
    ELSE [exc |-> "", g |-> ProvReporter_prov_to_graph(self, gr)]

(***************************************************************************)
(* The backends.  A persist call in progress is a record: the exception    *)
(* raised so far ("" for none), the backends entered (log), the files      *)
(* written, the HTTP requests sent and the value to return.                *)
(***************************************************************************)
\* g.serialize(format=...): the text, whatever its Python type
Serialize(gr, format) == [format |-> format, triples |-> BagToSet(gr.triples)]

NoText == [format |-> "", triples |-> {}]

Started ==
    [exc |-> "", log |-> <<>>, writes |-> <<>>, posts |-> <<>>, ret |-> NoText]

\* ProvReporter._persist_to_file
_persist_to_file(call, gr, rdf_file_path, named_graph_uri) ==
    LET path == Remove(Remove(rdf_file_path, ttl), trig) IN
    IF named_graph_uri = None
    THEN [call EXCEPT !.writes = Append(@, [destination |-> path \o ttl,
                                            data |-> Serialize(gr, "turtle")])]
    ELSE [call EXCEPT !.writes = Append(@, [destination |-> path \o trig,
                                            data |-> Serialize(gr, "trig")])]

\* ProvReporter._persist_to_graphdb; status_code is what the server answers.
\* context is assigned only under named_graph_uri != "null".
_persist_to_graphdb(call, gr, named_graph_uri, status_code) ==
    IF NotEqualStr(named_graph_uri, null)
    THEN LET context == IF named_graph_uri = None
                        THEN null
                        ELSE <<"<">> \o named_graph_uri.s \o <<">">>
             sent == [call EXCEPT !.posts = Append(@, [to |-> "graphdb",
                                                       context |-> context,
                                                       data |-> Serialize(gr, "turtle")])]
         IN  IF status_code # 204 THEN [sent EXCEPT !.exc = "Exception"] ELSE sent
    ELSE [call EXCEPT !.exc = "UnboundLocalError"]

\* utils.make_sparql_insert_data: INSERT DATA, inside GRAPH <uri> { } when a
\* named graph is given; context holds the GRAPH clause's <uri>, or nothing
make_sparql_insert_data(named_graph_uri, gr) ==
    [to |-> "sop",
     context |-> IF named_graph_uri = None THEN <<>>
                 ELSE <<"<">> \o named_graph_uri.s \o <<">">>,
     data |-> Serialize(gr, "sparql")]

\* utils.query_sop_sparql: one request carrying the query
query_sop_sparql(call, query) == [call EXCEPT !.posts = Append(@, query)]

\* ProvReporter._persist_to_sop; ok is the response's r.ok
_persist_to_sop(call, gr, named_graph_uri, ok) ==
    LET sent == query_sop_sparql(call, make_sparql_insert_data(named_graph_uri, gr)) IN
    IF ~ok THEN [sent EXCEPT !.exc = "Exception"] ELSE sent

\* the "string" branch of persist: bytes and str both come back as str, but
\* .decode() on what serialize(format="trig") returns needs it to be bytes
PersistToString(call, gr, named_graph_uri) ==
    IF named_graph_uri = None
    THEN [call EXCEPT !.ret = Serialize(gr, "turtle")]
    ELSE IF rdflibStr
         THEN [call EXCEPT !.exc = "AttributeError"]
         ELSE [call EXCEPT !.ret = Serialize(gr, "trig")]

(***************************************************************************)
(* ProvReporter.persist                                                    *)
(***************************************************************************)
known_methods == <<"graphdb", "sop", "file", "string">>

\* the order of the four "if ... in methods" blocks
BackendOrder == <<"file", "graphdb", "sop", "string">>

\* methods as persist's first lines leave it: a str becomes a one-element list,
\* None becomes ["string"]
Normalise(methods) ==
    IF methods.t = "str" THEN methods.v
    ELSE IF methods.t = "None" THEN <<"string">>
    ELSE methods.v

\* the validation loop: the position of the method it raises for, 0 if none
FirstUnknown(ms) ==
    IF \A i \in 1..Len(ms) : ms[i] \in Range(known_methods) THEN 0
    ELSE CHOOSE i \in 1..Len(ms) :
            /\ ms[i] \notin Range(known_methods)
            /\ \A j \in 1..(i - 1) : ms[j] \in Range(known_methods)

\* the backends in the order the caller listed them
DispatchOrder_asListed(ms) == ms

\* every selected backend, and the string branch whether selected or not
DispatchOrder_alwaysString(ms) ==
    LET Selected(b) == b \in Range(ms) \/ b = "string" IN SelectSeq(BackendOrder, Selected)

\* the blocks persist enters for the list ms, in the order it enters them
DispatchOrder(ms) ==
    LET Selected(b) == b \in Range(ms) IN SelectSeq(BackendOrder, Selected)

\* the graph and the named graph persist goes on with, or the exception:
\* self is NoRec when persist is called on the class
Resolve(self, gr, named_graph_uri) ==
    IF self # NoRec
    THEN LET built == BuildGraph(self, NoGraph) IN
         [exc |-> built.exc, g |-> built.g,
          named_graph_uri |-> IF self.named_graph_uri # None
                              THEN self.named_graph_uri
                              ELSE named_graph_uri]
    ELSE IF gr.nil
         THEN [exc |-> "ProvWorkflowException", g |-> gr,
               named_graph_uri |-> named_graph_uri]
         ELSE [exc |-> "", g |-> gr, named_graph_uri |-> named_graph_uri]

\* one block of persist
Enter(b, call, gr, rdf_file_path, named_graph_uri, status_code, ok) ==
    LET entered == [call EXCEPT !.log = Append(@, b)] IN
    CASE b = "file" -> _persist_to_file(entered, gr, rdf_file_path, named_graph_uri)
      [] b = "graphdb" -> _persist_to_graphdb(entered, gr, named_graph_uri, status_code)
      [] b = "sop" -> _persist_to_sop(entered, gr, named_graph_uri, ok)
      [] b = "string" -> PersistToString(entered, gr, named_graph_uri)
      [] OTHER -> entered

\* the blocks one after the other; an exception ends the call
RECURSIVE Backends(_, _, _, _, _, _, _)
Backends(order, call, gr, rdf_file_path, named_graph_uri, status_code, ok) ==
    IF order = <<>> \/ call.exc # "" THEN call
    ELSE Backends(Tail(order),
                  Enter(Head(order), call, gr, rdf_file_path, named_graph_uri,
                        status_code, ok),
                  gr, rdf_file_path, named_graph_uri, status_code, ok)

\* persist, had the selection been validated after the backends have run
persist_validateLate(self, gr, methods, rdf_file_path, named_graph_uri, status_code, ok) ==
    LET ms == Normalise(methods)
        r == Resolve(self, gr, named_graph_uri)
        done == Backends(DispatchOrder(ms), Started, r.g, rdf_file_path,
                         r.named_graph_uri, status_code, ok)
        out == IF r.exc # "" THEN [Started EXCEPT !.exc = r.exc]
               ELSE IF FirstUnknown(ms) # 0
               THEN [done EXCEPT !.exc = "ProvWorkflowException"]
               ELSE done
    IN  [call |-> out, g |-> r.g, named_graph_uri |-> r.named_graph_uri]

\* persist(g, methods, rdf_file_path, named_graph_uri) on self or on the class:
\* the call as it ends, with the graph and the named graph it worked with
persist(self, gr, methods, rdf_file_path, named_graph_uri, status_code, ok) ==
    LET ms == Normalise(methods) IN
    IF FirstUnknown(ms) # 0
    THEN [call |-> [Started EXCEPT !.exc = "ProvWorkflowException"],
          g |-> gr, named_graph_uri |-> named_graph_uri]
    ELSE LET r == Resolve(self, gr, named_graph_uri) IN
         IF r.exc # ""
         THEN [call |-> [Started EXCEPT !.exc = r.exc],
               g |-> r.g, named_graph_uri |-> r.named_graph_uri]
         ELSE [call |-> Backends(DispatchOrder(ms), Started, r.g, rdf_file_path,
                                 r.named_graph_uri, status_code, ok),
               g |-> r.g, named_graph_uri |-> r.named_graph_uri]

(***************************************************************************)
(* The caller's steps on records and graphs.                               *)
(***************************************************************************)
Idle == [op |-> "idle"]

\* rec = Cls(uri, label, named_graph_uri, class_uri), Cls a ProvReporter class
\* whose __init__ is ProvReporter's
New(cls, uri, label, named_graph_uri, class_uri) ==
    /\ uri = None => made < MaxIds
    /\ made' = IF uri = None THEN made + 1 ELSE made
    /\ LET exc == ClassUriCheck(cls, class_uri) IN
       /\ last' = [op |-> "new", exc |-> exc, cls |-> cls, class_uri |-> class_uri]
       /\ IF exc = ""
          THEN /\ rec' = ProvReporter__init__(cls, uri, label, named_graph_uri, class_uri)
               /\ emitted' = 0
               /\ base' = g.triples
          ELSE UNCHANGED <<rec, emitted, base>>
    /\ UNCHANGED <<now, g, fs, rdflibStr>>

\* rec = Workflow(uri, label, blocks)
NewWorkflow(uri, label, blocks) ==
    /\ uri = None => made < MaxIds
    /\ made' = IF uri = None THEN made + 1 ELSE made
    /\ last' = [op |-> "new", exc |-> "", cls |-> "Workflow", class_uri |-> None]
    /\ rec' = Workflow__init__(uri, label, blocks)
    /\ emitted' = 0
    /\ base' = g.triples
    /\ UNCHANGED <<now, g, fs, rdflibStr>>

\* a Block built at time 0, for a Workflow to own
Block(i) ==
    [cls |-> "Block", uri |-> URIRef(<<"b", Digit(i)>>), label |-> None,
     named_graph_uri |-> None, class_uri |-> None,
     created |-> Literal(<<Digit(0)>>, "dateTimeStamp"), blocks |-> <<>>]

\* rec.blocks.append(b)
AppendBlock(b) ==
    /\ rec.cls = "Workflow"
    /\ Len(rec.blocks) < MaxBlocks
    /\ rec' = [rec EXCEPT !.blocks = Append(@, b)]
    /\ last' = [op |-> "append"]
    /\ UNCHANGED <<now, made, g, base, emitted, fs, rdflibStr>>

\* del rec.blocks[i]
RemoveBlock(i) ==
    /\ rec.cls = "Workflow"
    /\ i \in 1..Len(rec.blocks)
    /\ rec' = [rec EXCEPT !.blocks = SubSeq(@, 1, i - 1) \o SubSeq(@, i + 1, Len(@))]
    /\ last' = [op |-> "remove"]
    /\ UNCHANGED <<now, made, g, base, emitted, fs, rdflibStr>>

\* a statement some other producer put in the caller's graph
Foreign == <<URIRef(<<"x">>), RDF_type, URIRef(<<"y">>)>>

\* g = Graph(), then possibly g.add(Foreign)
NewGraph(populated) ==
    /\ g' = IF populated THEN GraphAdd(Graph(None), Foreign) ELSE Graph(None)
    /\ base' = g'.triples
    /\ emitted' = 0
    /\ last' = [op |-> "graph"]
    /\ UNCHANGED <<now, made, rec, fs, rdflibStr>>

\* rec.prov_to_graph(g) when passed, rec.prov_to_graph() otherwise
Build(passed) ==
    /\ rec # NoRec
    /\ emitted < MaxBuilds
    /\ LET r == BuildGraph(rec, IF passed THEN g ELSE NoGraph) IN
       /\ g' = IF passed THEN r.g ELSE g
       /\ emitted' = IF passed /\ r.exc = "" THEN emitted + 1 ELSE emitted
       /\ last' = [op |-> "build", exc |-> r.exc, passed |-> passed, self |-> rec,
                   before |-> g, after |-> r.g]
    /\ UNCHANGED <<now, made, rec, base, fs, rdflibStr>>

\* time passes
Tick ==
    /\ now < MaxClock
    /\ now' = now + 1
    /\ UNCHANGED <<made, rec, g, base, emitted, fs, rdflibStr, last>>

Init ==
    /\ now = 0
    /\ made = 0
    /\ rec = NoRec
    /\ g = GraphAdd(Graph(None), Foreign)
    /\ base = g.triples
    /\ emitted = 0
    /\ fs = {}
    /\ rdflibStr \in BOOLEAN
    /\ last = Idle

(***************************************************************************)
(* Inputs.                                                                 *)
(***************************************************************************)
Classes == known_classes \cup {"MyBlock"}
Uris == {None, Str(<<"r">>)}
Labels == {None, Str(<<"L">>)}
ClassUris == {None, Str(<<>>), Str(<<"h", "t", "t">>), Str(http \o <<":", "c">>),
              URIRef(http \o <<"s", ":", "c">>), Str(<<"f", "t", "p", ":", "c">>)}
NamedGraphs == {None, Str(http \o <<":", "n">>)}

BlockLists ==
    UNION {[1..n -> {Block(1), Block(2)}] : n \in 0..MaxBlocks}

(***************************************************************************)
(* SpecNew: construction of records of every class.                        *)
(***************************************************************************)
Construct ==
    \E cls \in Classes \ {"Workflow"}, uri \in Uris, class_uri \in ClassUris :
        New(cls, uri, None, None, class_uri)

ConstructWorkflow ==
    \E uri \in Uris, blocks \in BlockLists :
        NewWorkflow(uri, None, blocks)

NextNew == Construct \/ ConstructWorkflow \/ Tick

SpecNew == Init /\ [][NextNew]_vars

(***************************************************************************)
(* SpecBuild: records and Workflows built into graphs.                     *)
(***************************************************************************)
MakeRecord ==
    \E label \in Labels : New("Entity", Str(<<"r">>), label, None, None)

MakeWorkflow ==
    \E blocks \in BlockLists : NewWorkflow(Str(<<"w">>), None, blocks)

Add == \E i \in 1..2 : AppendBlock(Block(i))

Del == \E i \in 1..MaxBlocks : RemoveBlock(i)

Reset == \E populated \in BOOLEAN : NewGraph(populated)

Emit == \E passed \in BOOLEAN : Build(passed)

NextBuild == MakeRecord \/ MakeWorkflow \/ Add \/ Del \/ Reset \/ Emit \/ Tick

SpecBuild == Init /\ [][NextBuild]_vars

(***************************************************************************)
(* Spec: persist called on records, on Workflows and on the class.         *)
(***************************************************************************)
\* the default rdf_file_path
DefaultPath == <<"p">>
Paths == {DefaultPath, DefaultPath \o ttl, DefaultPath \o trig}
Overrides == {None, Str(http \o <<":", "m">>), Str(null)}
MethodNames == Range(known_methods) \cup {"bogus"}
MethodLists == UNION {[1..n -> MethodNames] : n \in 0..MaxMethods}
MethodArgs ==
    {[t |-> "None", v |-> <<>>]}
    \cup {[t |-> "str", v |-> <<m>>] : m \in MethodNames}
    \cup {[t |-> "list", v |-> ms] : ms \in MethodLists}

\* the call self.persist(...) or ProvReporter.persist(...), as one step
Persist(self, gr, methods, rdf_file_path, named_graph_uri, status_code, ok) ==
    /\ \E r \in {persist(self, gr, methods, rdf_file_path, named_graph_uri,
                         status_code, ok)} :
           /\ fs' = fs \cup {w.destination : w \in Range(r.call.writes)}
           /\ last' = [op |-> "persist", self |-> self, given |-> ~gr.nil,
                       methods |-> methods, rdf_file_path |-> rdf_file_path,
                       override |-> named_graph_uri, status_code |-> status_code,
                       ok |-> ok, exc |-> r.call.exc, log |-> r.call.log,
                       writes |-> r.call.writes, posts |-> r.call.posts,
                       ret |-> r.call.ret, g |-> r.g,
                       named_graph_uri |-> r.named_graph_uri, before |-> fs]
    /\ UNCHANGED <<now, made, rec, g, base, emitted, rdflibStr>>

\* the inputs that can bear on a call with this selection; the others keep
\* their defaults
PathsFor(methods) ==
    IF "file" \in Range(Normalise(methods)) THEN Paths ELSE {DefaultPath}
StatusFor(methods) ==
    IF "graphdb" \in Range(Normalise(methods)) THEN {204, 500} ELSE {204}
OkFor(methods) ==
    IF "sop" \in Range(Normalise(methods)) THEN BOOLEAN ELSE {TRUE}
OverridesFor(methods) ==
    IF FirstUnknown(Normalise(methods)) = 0 THEN Overrides ELSE {None}

CallOnInstance ==
    /\ last.op = "idle"
    /\ rec # NoRec
    /\ \E methods \in MethodArgs :
       \E path \in PathsFor(methods), ngu \in OverridesFor(methods),
          status_code \in StatusFor(methods), ok \in OkFor(methods) :
            Persist(rec, NoGraph, methods, path, ngu, status_code, ok)

CallOnClass ==
    /\ last.op = "idle"
    /\ \E methods \in MethodArgs, gr \in {NoGraph, g} :
       \E path \in PathsFor(methods), ngu \in OverridesFor(methods),
       status_code \in StatusFor(methods), ok \in OkFor(methods) :
        Persist(NoRec, gr, methods, path, ngu, status_code, ok)

\* the caller goes on after a call
Continue ==
    /\ last.op # "idle"
    /\ last' = Idle
    /\ UNCHANGED <<now, made, rec, g, base, emitted, fs, rdflibStr>>

Bind ==
    /\ last.op = "idle"
    /\ \E ngu \in NamedGraphs : New("Entity", Str(<<"r">>), None, ngu, None)

BindWorkflow ==
    /\ last.op = "idle"
    /\ \E blocks \in {<<>>, <<Block(1)>>} : NewWorkflow(Str(<<"w">>), None, blocks)

Next == Bind \/ BindWorkflow \/ CallOnInstance \/ CallOnClass \/ Continue

Spec == Init /\ [][Next]_vars

(***************************************************************************)
(* Properties.                                                             *)
(***************************************************************************)
IsPrefix(s, t) == Len(s) <= Len(t) /\ SubSeq(t, 1, Len(s)) = s

\* the method names a call selects
Selection(methods) == IF methods.t = "None" THEN {"string"} ELSE Range(methods.v)

AllKnown(methods) == Selection(methods) \subseteq {"file", "graphdb", "sop", "string"}

\* the selected backends in the order file, graphdb, sop, string
Canonical(methods) ==
    LET In(b) == b \in Selection(methods) IN
    SelectSeq(<<"file", "graphdb", "sop", "string">>, In)

\* "<" + uri + ">"
Bracketed(uri) == <<"<">> \o uri.s \o <<">">>

\* the statements a record's prov_to_graph is to emit
RecordStatements(r) ==
    {<<r.uri, "rdf:type", URIRef(<<"provwf:ProvReporter">>)>>,
     <<r.uri, "dcterms:created", r.created>>}
    \cup (IF r.label # None
          THEN {<<r.uri, "rdfs:label", Literal(r.label.s, "string")>>}
          ELSE {})

\* C1: a persist call whose selection holds an unknown method (at whatever
\* position), or that is made on the class without a graph, raises
\* ProvWorkflowException; and a persist call that raises ProvWorkflowException
\* has entered no backend: no file written, no request sent, nothing returned.
C1_ConfigurationErrorBeforeAnyBackend ==
    last.op = "persist" =>
        /\ (~AllKnown(last.methods) \/ (last.self = NoRec /\ ~last.given))
              => last.exc = "ProvWorkflowException"
        /\ last.exc = "ProvWorkflowException"
              => /\ last.log = <<>>
                 /\ last.writes = <<>>
                 /\ last.posts = <<>>
                 /\ last.ret = NoText
                 /\ fs = last.before

\* C1 witness: ["file", "bogus"] was rejected and the disk is as it was
C1_Witness ==
    /\ last.op = "persist"
    /\ last.methods = [t |-> "list", v |-> <<"file", "bogus">>]
    /\ last.exc = "ProvWorkflowException"
    /\ fs = last.before

\* C2: for a valid selection the backends entered are a prefix of the selected
\* ones in the order file, graphdb, sop, string (so each at most once, none
\* unselected, whatever the order and repetitions of the list), and all of them
\* when the call ends without an exception.
C2_FixedBackendOrder ==
    (last.op = "persist" /\ AllKnown(last.methods)) =>
        /\ IsPrefix(last.log, Canonical(last.methods))
        /\ last.exc = "" => last.log = Canonical(last.methods)

\* C2 witness: a list in another order, with a repetition, ran in the fixed order
C2_Witness ==
    /\ last.op = "persist"
    /\ last.methods = [t |-> "list", v |-> <<"string", "file", "string">>]
    /\ last.exc = ""
    /\ last.log = <<"file", "string">>

\* C3: when a backend fails the later ones are not entered and nothing is
\* returned, a file already written stays written, and every remote backend
\* entered has made exactly one request.
C3_FailurePropagatesOneAttempt ==
    (last.op = "persist" /\ AllKnown(last.methods)) =>
        /\ last.exc # "" => /\ IsPrefix(last.log, Canonical(last.methods))
                            /\ last.ret = NoText
        /\ \A i \in DOMAIN last.writes : last.writes[i].destination \in fs
        /\ \A b \in {"graphdb", "sop"} :
              b \in Range(last.log)
                  => Cardinality({i \in DOMAIN last.posts : last.posts[i].to = b}) = 1

\* C4: on an instance, the named graph handed to the backends is the caller's
\* named_graph_uri when one is passed, and the record's otherwise.
C4_OverrideWins ==
    (last.op = "persist" /\ last.self # NoRec /\ last.log # <<>>) =>
        last.named_graph_uri = IF last.override # None
                               THEN last.override
                               ELSE last.self.named_graph_uri

\* C5: a construction succeeds exactly when the class is built in and no
\* class_uri is given, or the class is a specialisation and its class_uri
\* starts with http.
C5_SpecialisationInvariant ==
    last.op = "new" =>
        (last.exc = "" <=>
            \/ last.cls \in {"Entity", "Activity", "Agent", "Workflow", "Block"}
               /\ last.class_uri = None
            \/ last.cls \notin {"Entity", "Activity", "Agent", "Workflow", "Block"}
               /\ last.class_uri # None
               /\ StartsWith(last.class_uri.s, <<"h", "t", "t", "p">>))

\* C6: persist returns the serialized graph exactly when it ends without an
\* exception and "string" is selected (the default selection included), and
\* returns nothing otherwise.
C6_ReturnsTextIffString ==
    last.op = "persist" =>
        /\ last.ret # NoText <=> (last.exc = "" /\ "string" \in Selection(last.methods))
        /\ last.ret # NoText
              => /\ last.ret.triples = BagToSet(last.g.triples)
                 /\ last.ret.format = IF last.named_graph_uri = None
                                      THEN "turtle" ELSE "trig"

\* C6 witness: a call with no methods argument returned the text, and a call
\* selecting only "file" would not: here the default selection
C6_Witness ==
    /\ last.op = "persist"
    /\ last.methods.t = "None"
    /\ last.exc = ""
    /\ last.ret # NoText

C8_CompositeAggregation ==
    (last.op = "build" /\ last.self.cls = "Workflow" /\ Len(last.self.blocks) >= 1) =>
        /\ last.exc = ""
        /\ LET held == BagToSet(last.after.triples)
               w == last.self
           IN  /\ RecordStatements(w) \subseteq held
               /\ <<w.uri, "rdf:type", URIRef(<<"provwf:Workflow">>)>> \in held
               /\ \A i \in DOMAIN w.blocks :
                     /\ RecordStatements(w.blocks[i]) \subseteq held
                     /\ <<w.uri, "provwf:hadBlock", w.blocks[i].uri>> \in held
               /\ {t \in held : t[1] = w.uri /\ t[2] = "provwf:hadBlock"}
                     = {<<w.uri, "provwf:hadBlock", w.blocks[i].uri>> : i \in DOMAIN w.blocks}

\* C9: the file backend writes .trig in TriG for a named graph and .ttl in
\* Turtle for none, and the graphdb backend always sends its request, with the
\* context "null" for no named graph and <uri> for one.
C9_NamedGraphRouting ==
    last.op = "persist" =>
        /\ \A i \in DOMAIN last.writes :
              LET w == last.writes[i]
                  n == Len(w.destination)
              IN  IF last.named_graph_uri = None
                  THEN w.data.format = "turtle"
                       /\ SubSeq(w.destination, n - 3, n) = <<".", "t", "t", "l">>
                  ELSE w.data.format = "trig"
                       /\ SubSeq(w.destination, n - 4, n) = <<".", "t", "r", "i", "g">>
        /\ "graphdb" \in Range(last.log)
              => \E i \in DOMAIN last.posts :
                    /\ last.posts[i].to = "graphdb"
                    /\ last.posts[i].context =
                          IF last.named_graph_uri = None
                          THEN <<"n", "u", "l", "l">>
                          ELSE Bracketed(last.named_graph_uri)

\* C10 as stated: after two builds of a record on the same graph each of the
\* record's own statements is held twice.
C10_HeldTwice ==
    (rec # NoRec /\ rec.cls # "Workflow" /\ emitted = 2) =>
        \A t \in RecordStatements(rec) : CopiesIn(t, g.triples) = 2

\* C10 amended: however often a record is built on the same graph, the graph
\* returned is the one passed in, it holds what it held before together with
\* the record's own statements (type, created as fixed at construction, label
\* if set) and nothing else, and it holds each of them once: a second build
\* changes nothing.
C10_IdempotentEmission ==
    (rec # NoRec /\ rec.cls # "Workflow" /\ emitted >= 1) =>
        /\ \A t \in RecordStatements(rec) : CopiesIn(t, g.triples) = 1
        /\ \A t \in BagToSet(base) : CopiesIn(t, g.triples) >= CopiesIn(t, base)
        /\ BagToSet(g.triples) = BagToSet(base) \cup RecordStatements(rec)
        /\ (last.op = "build" /\ last.passed) => last.after = g
        /\ (last.op = "build" /\ last.passed /\ emitted >= 2) => last.before = g

\* C10 witness: a labelled record built twice on a graph that held a statement
C10_Witness ==
    /\ rec # NoRec
    /\ rec.cls # "Workflow"
    /\ rec.label # None
    /\ emitted = 2
    /\ last.op = "build"
    /\ BagIn(Foreign, base)

====
